---- MODULE Spec2Model ----
(***************************************************************************)
(* Inverse kinematics of a 2-link planar manipulator (src/main.cpp).       *)
(*                                                                         *)
(* Representation of the program's doubles:                                *)
(*   - the six values read from the input are whole numbers;               *)
(*   - a position handed to the solver is held in units of 1/N (N = 50,    *)
(*     the number of segments), which holds every waypoint                 *)
(*     start + (goal - start) * k / N of whole-number endpoints exactly;   *)
(*   - sqrt results are held by their radicand and compared by squaring;   *)
(*   - the quotient 0/0 is NaN, and every comparison with NaN is false;    *)
(*   - angles are fixed-point, AngScale units per radian, and the libm     *)
(*     functions cos, sin, acos, atan2 are computed to that resolution.    *)
(*                                                                         *)
(* On whole-number inputs the comparisons and the acos argument computed   *)
(* in double arithmetic agree with the exact values used here.  Rounding   *)
(* of non-integer doubles is not represented.  sin(Pi) is 0 here, where    *)
(* sin(M_PI) is a positive 1.2e-16: at the origin with equal links the     *)
(* program reports theta1 = -pi/2 and this module theta1 = 0; both are     *)
(* solutions, since theta1 is free there.                                  *)
(***************************************************************************)
EXTENDS Integers, Sequences, FiniteSets, TLC

\* ------------------------------------------------------------------------
\* Bounds of the model
\* ------------------------------------------------------------------------
MaxCoord == 2
MaxLink == 2

\* ------------------------------------------------------------------------
\* Program constants and number representation
\* ------------------------------------------------------------------------
N == 50
AngScale == 10000
Pi == 31416
HalfPi == Pi \div 2
TwoPi == 2 * Pi
TabScale == 8192

Abs(v) == IF v < 0 THEN -v ELSE v

\* a / b rounded to the nearest integer, b > 0
RoundDiv(a, b) == (a + b \div 2) \div b

NaN == [nan |-> TRUE, v |-> 0]
Num(v) == [nan |-> FALSE, v |-> v]

\* cos on [0, pi/2] by its Taylor polynomial (Horner form), in 1/AngScale
CosTaylor(t) ==
  LET x2 == RoundDiv(t * t, AngScale)
      h5 == AngScale - RoundDiv(x2, 90)
      h4 == AngScale - RoundDiv(x2 * h5, 56 * AngScale)
      h3 == AngScale - RoundDiv(x2 * h4, 30 * AngScale)
      h2 == AngScale - RoundDiv(x2 * h3, 12 * AngScale)
  IN  AngScale - RoundDiv(x2 * h2, 2 * AngScale)

\* the table <<cos(lo), ..., cos(hi)>>
RECURSIVE CosSeq(_, _)
CosSeq(lo, hi) ==
  IF lo = hi THEN <<CosTaylor(lo)>>
  ELSE LET mid == (lo + hi) \div 2
       IN  CosSeq(lo, mid) \o CosSeq(mid + 1, hi)

CosTab == CosSeq(0, HalfPi)

Cos(t) ==
  LET r == t % TwoPi
      s == IF r > Pi THEN TwoPi - r ELSE r
  IN  IF s <= HalfPi THEN CosTab[s + 1] ELSE -CosTab[Pi - s + 1]

Sin(t) == Cos(t - HalfPi)

\* the largest t in lo..hi with cos(t) >= num / den  (den > 0)
RECURSIVE AcosSearch(_, _, _, _)
AcosSearch(num, den, lo, hi) ==
  IF lo >= hi THEN lo
  ELSE LET mid == (lo + hi + 1) \div 2
       IN  IF Cos(mid) * den >= num * AngScale
           THEN AcosSearch(num, den, mid, hi)
           ELSE AcosSearch(num, den, lo, mid - 1)

\* the table of acos(k / TabScale) for k in lo..hi
RECURSIVE AcosSeq(_, _)
AcosSeq(lo, hi) ==
  IF lo = hi THEN <<AcosSearch(lo, TabScale, 0, Pi)>>
  ELSE LET mid == (lo + hi) \div 2
       IN  AcosSeq(lo, mid) \o AcosSeq(mid + 1, hi)

AcosTab == AcosSeq(-TabScale, TabScale)

\* acos(num / den): NaN for 0/0 and outside [-1, 1], else an angle in [0, pi]
Acos(num, den) ==
  LET n == IF den < 0 THEN -num ELSE num
      d == Abs(den)
  IN  IF d = 0 \/ n > d \/ n < -d THEN NaN
      ELSE IF n = d THEN Num(0)
      ELSE IF n = -d THEN Num(Pi)
      ELSE Num(AcosTab[RoundDiv(n * TabScale, d) + TabScale + 1])

\* the largest t in lo..hi with tan(t) <= y / x  (x, y >= 0)
RECURSIVE AtanSearch(_, _, _, _)
AtanSearch(y, x, lo, hi) ==
  IF lo >= hi THEN lo
  ELSE LET mid == (lo + hi + 1) \div 2
       IN  IF y * Cos(mid) - x * Sin(mid) >= 0
           THEN AtanSearch(y, x, mid, hi)
           ELSE AtanSearch(y, x, lo, mid - 1)

\* the table of atan(k / TabScale) for k in lo..hi
RECURSIVE AtanSeq(_, _)
AtanSeq(lo, hi) ==
  IF lo = hi THEN <<AtanSearch(lo, TabScale, 0, HalfPi)>>
  ELSE LET mid == (lo + hi) \div 2
       IN  AtanSeq(lo, mid) \o AtanSeq(mid + 1, hi)

AtanTab == AtanSeq(0, TabScale)

\* atan2(y, x) in (-pi, pi]; atan2(0, 0) = 0
Atan2(y, x) ==
  LET ay == Abs(y)
      ax == Abs(x)
      t == IF ax = 0 /\ ay = 0 THEN 0
           ELSE IF ay <= ax THEN AtanTab[RoundDiv(ay * TabScale, ax) + 1]
           ELSE HalfPi - AtanTab[RoundDiv(ax * TabScale, ay) + 1]
  IN  IF x >= 0 /\ y >= 0 THEN t
      ELSE IF x < 0 /\ y >= 0 THEN Pi - t
      ELSE IF x < 0 THEN t - Pi
      ELSE -t

\* ------------------------------------------------------------------------
\* from_pos_to_angle
\* ------------------------------------------------------------------------
\* variant: the divisor is L1 * L2
AcosArg_NoTwo(pos, l) ==
  [num |-> pos.x * pos.x + pos.y * pos.y - N * N * (l.x * l.x + l.y * l.y),
   den |-> N * N * (l.x * l.y)]

\* the argument of acos, as numerator and denominator; pos in units of 1/N
AcosArg(pos, l) ==
  [num |-> pos.x * pos.x + pos.y * pos.y - N * N * (l.x * l.x + l.y * l.y),
   den |-> N * N * (2 * l.x * l.y)]

\* variant: the two atan2 terms are added
from_pos_to_angle_Plus(pos, l) ==
  LET arg == AcosArg(pos, l)
      theta2 == Acos(arg.num, arg.den)
      theta1 == IF theta2.nan THEN NaN
                ELSE Num(Atan2(pos.y, pos.x)
                         + Atan2(l.y * Sin(theta2.v),
                                 l.x * AngScale + l.y * Cos(theta2.v)))
  IN  [x |-> theta1, y |-> theta2]

from_pos_to_angle(pos, l) ==
  LET arg == AcosArg(pos, l)
      theta2 == Acos(arg.num, arg.den)
      theta1 == IF theta2.nan THEN NaN
                ELSE Num(Atan2(pos.y, pos.x)
                         - Atan2(l.y * Sin(theta2.v),
                                 l.x * AngScale + l.y * Cos(theta2.v)))
  IN  [x |-> theta1, y |-> theta2]

\* ------------------------------------------------------------------------
\* norm and the comparisons of is_given_inputs_feasible
\* ------------------------------------------------------------------------
\* norm(a, b) is sqrt(a*a + b*b); the value is held by its radicand
norm(a, b) == a * a + b * b

\* sqrt(rad) > k and sqrt(rad) < k
SqrtGt(rad, k) == k < 0 \/ rad > k * k
SqrtLt(rad, k) == k > 0 /\ rad < k * k

\* d = abs(c) / sqrt(a*a + b*b): the quotient, NaN when it is 0/0
\* (a = b = 0 forces c = 0)
LineDistance(x0, y0, x1, y1) ==
  LET a == y0 - y1
      b == -x0 + x1
      c == y0 * (x0 - x1) - (y0 - y1) * x0
  IN  [nan |-> (a * a + b * b = 0), c |-> Abs(c), rad |-> a * a + b * b]

\* d < k and d == 0; false for NaN
DistLt(d, k) == ~d.nan /\ k > 0 /\ d.c * d.c < k * k * d.rad
DistIsZero(d) == ~d.nan /\ d.c = 0

\* variant: the goal is not tested
OutOfOperableRange_StartOnly(x0, y0, x1, y1, l) ==
  \/ SqrtGt(norm(x0, y0), l.x + l.y)
  \/ SqrtLt(norm(x0, y0), Abs(l.x - l.y))

OutOfOperableRange(x0, y0, x1, y1, l) ==
  \/ SqrtGt(norm(x0, y0), l.x + l.y)
  \/ SqrtLt(norm(x0, y0), Abs(l.x - l.y))
  \/ SqrtGt(norm(x1, y1), l.x + l.y)
  \/ SqrtLt(norm(x1, y1), Abs(l.x - l.y))

\* variant: the inner radius without abs
LineTooClose_NoAbs(d, l) == DistLt(d, l.x - l.y)

LineTooClose(d, l) == DistLt(d, Abs(l.x - l.y))

LineIsSingular(d, l) == l.x = l.y /\ DistIsZero(d)

\* the branch is_given_inputs_feasible takes
is_given_inputs_feasible(p0, p1, l) ==
  LET d == LineDistance(p0.x, p0.y, p1.x, p1.y)
  IN  IF OutOfOperableRange(p0.x, p0.y, p1.x, p1.y, l) THEN "OutOfRange"
      ELSE IF LineTooClose(d, l) THEN "PathInfeasible"
      ELSE IF LineIsSingular(d, l) THEN "SingularPath"
      ELSE "true"

MsgOutOfRange == "Position(s) is(are) not in the operable range. Terminating ..."
MsgPathInfeasible == "Straight-line trajectory is not possible. Terminating ..."
MsgSingularPath == "Straight-line trajectory includes a singular point. Terminating ..."

\* ------------------------------------------------------------------------
\* State
\* ------------------------------------------------------------------------
VARIABLES pc, pos_init, pos_des, L, feasibility, angle_init, angle_des,
          i, pos_des_local, out, solver_calls, solver_pos

vars == <<pc, pos_init, pos_des, L, feasibility, angle_init, angle_des,
          i, pos_des_local, out, solver_calls, solver_pos>>

Coords == (-MaxCoord)..MaxCoord
Links == (-1)..MaxLink

Zero == [x |-> 0, y |-> 0]
NoAngles == [x |-> NaN, y |-> NaN]

\* a whole-number position in units of 1/N
Fine(p) == [x |-> N * p.x, y |-> N * p.y]

\* entries of the standard output: a line of text, or a table row with the
\* values handed to prd, its annotation and its waypoint index
Line(kind, text) == <<kind, text>>
Row(angles, pos, note, idx) ==
  <<"row", note, idx, angles.x.nan, angles.x.v, angles.y.nan, angles.y.v,
    pos.x, pos.y>>

Kind(e) == e[1]
Text(e) == e[2]
RowIdx(r) == r[3]
RowAngles(r) == [x |-> [nan |-> r[4], v |-> r[5]], y |-> [nan |-> r[6], v |-> r[7]]]
RowPos(r) == [x |-> r[8], y |-> r[9]]

Init ==
  /\ pc = "assign_pos_init"
  /\ pos_init = Zero
  /\ pos_des = Zero
  /\ L = Zero
  /\ feasibility = FALSE
  /\ angle_init = NoAngles
  /\ angle_des = NoAngles
  /\ i = 0
  /\ pos_des_local = Zero
  /\ out = <<>>
  /\ solver_calls = 0
  /\ solver_pos = Zero

\* ------------------------------------------------------------------------
\* main
\* ------------------------------------------------------------------------
assign_pos_init ==
  /\ pc = "assign_pos_init"
  /\ \E px \in Coords, py \in Coords : pos_init' = [x |-> px, y |-> py]
  /\ out' = out \o
       <<Line("prompt", "Type the x coordinate of the initial position of the end-effector:"),
         Line("prompt", "Type the y coordinate of the initial position of the end-effector:")>>
  /\ pc' = "assign_pos_des"
  /\ UNCHANGED <<pos_des, L, feasibility, angle_init, angle_des, i,
                 pos_des_local, solver_calls, solver_pos>>

assign_pos_des ==
  /\ pc = "assign_pos_des"
  /\ \E px \in Coords, py \in Coords : pos_des' = [x |-> px, y |-> py]
  /\ out' = out \o
       <<Line("prompt", "Type the x coordinate of the desired position of the end-effector:"),
         Line("prompt", "Type the y coordinate of the desired position of the end-effector:")>>
  /\ pc' = "assign_link_length"
  /\ UNCHANGED <<pos_init, L, feasibility, angle_init, angle_des, i,
                 pos_des_local, solver_calls, solver_pos>>

assign_link_length ==
  /\ pc = "assign_link_length"
  /\ \E lx \in Links, ly \in Links : L' = [x |-> lx, y |-> ly]
  /\ out' = out \o
       <<Line("prompt", "Type the length of the first link:"),
         Line("prompt", "Type the length of the second link:")>>
  /\ pc' = "check"
  /\ UNCHANGED <<pos_init, pos_des, feasibility, angle_init, angle_des, i,
                 pos_des_local, solver_calls, solver_pos>>

\* the three branches that print a message and call exit(0)
Terminate(msg) ==
  /\ out' = Append(out, Line("error", msg))
  /\ pc' = "exited"
  /\ UNCHANGED <<pos_init, pos_des, L, feasibility, angle_init, angle_des, i,
                 pos_des_local, solver_calls, solver_pos>>

CheckOutOfRange ==
  /\ pc = "check"
  /\ is_given_inputs_feasible(pos_init, pos_des, L) = "OutOfRange"
  /\ Terminate(MsgOutOfRange)

\* variant: the branch returns false instead of calling exit(0)
CheckPathInfeasible_NoExit ==
  /\ pc = "check"
  /\ is_given_inputs_feasible(pos_init, pos_des, L) = "PathInfeasible"
  /\ out' = Append(out, Line("error", MsgPathInfeasible))
  /\ pc' = "convert_init"
  /\ UNCHANGED <<pos_init, pos_des, L, feasibility, angle_init, angle_des, i,
                 pos_des_local, solver_calls, solver_pos>>

CheckPathInfeasible ==
  /\ pc = "check"
  /\ is_given_inputs_feasible(pos_init, pos_des, L) = "PathInfeasible"
  /\ Terminate(MsgPathInfeasible)

CheckSingularPath ==
  /\ pc = "check"
  /\ is_given_inputs_feasible(pos_init, pos_des, L) = "SingularPath"
  /\ Terminate(MsgSingularPath)

CheckPass ==
  /\ pc = "check"
  /\ is_given_inputs_feasible(pos_init, pos_des, L) = "true"
  /\ feasibility' = TRUE
  /\ pc' = "convert_init"
  /\ UNCHANGED <<pos_init, pos_des, L, angle_init, angle_des, i,
                 pos_des_local, out, solver_calls, solver_pos>>

\* Convert positions to joint angles
ConvertInit ==
  /\ pc = "convert_init"
  /\ angle_init' = from_pos_to_angle(Fine(pos_init), L)
  /\ solver_calls' = solver_calls + 1
  /\ solver_pos' = Fine(pos_init)
  /\ pc' = "convert_des"
  /\ UNCHANGED <<pos_init, pos_des, L, feasibility, angle_des, i,
                 pos_des_local, out>>

ConvertDes ==
  /\ pc = "convert_des"
  /\ angle_des' = from_pos_to_angle(Fine(pos_des), L)
  /\ solver_calls' = solver_calls + 1
  /\ solver_pos' = Fine(pos_des)
  /\ pc' = "print_format"
  /\ UNCHANGED <<pos_init, pos_des, L, feasibility, angle_init, i,
                 pos_des_local, out>>

PrintFormat ==
  /\ pc = "print_format"
  /\ out' = out \o
       <<Line("header", "Angle 1 [rad] | Angle 2 [rad] | x, end-effector | y, end-effector"),
         Line("rule", "--------------------------------------------------------------------")>>
  /\ pc' = "print_initial"
  /\ UNCHANGED <<pos_init, pos_des, L, feasibility, angle_init, angle_des, i,
                 pos_des_local, solver_calls, solver_pos>>

PrintInitial ==
  /\ pc = "print_initial"
  /\ out' = Append(out, Row(angle_init, Fine(pos_init), " (initial)", 0))
  /\ i' = 0
  /\ pc' = "loop"
  /\ UNCHANGED <<pos_init, pos_des, L, feasibility, angle_init, angle_des,
                 pos_des_local, solver_calls, solver_pos>>

\* variant: the fraction is i / N
Waypoint_FromZero(p0, p1, k) ==
  [x |-> N * p0.x + (p1.x - p0.x) * k,
   y |-> N * p0.y + (p1.y - p0.y) * k]

\* pos_init + (pos_des - pos_init) * (i + 1.0) / N, in units of 1/N
Waypoint(p0, p1, k) ==
  [x |-> N * p0.x + (p1.x - p0.x) * (k + 1),
   y |-> N * p0.y + (p1.y - p0.y) * (k + 1)]

\* variant: the last iteration is taken to be i == N
RowNote_OffByOne(k) == IF k = N THEN " (final)" ELSE ""

\* the annotation of the row printed in iteration k
RowNote(k) == IF k = N - 1 THEN " (final)" ELSE ""

LoopStep ==
  /\ pc = "loop"
  /\ i < N
  /\ pos_des_local' = Waypoint(pos_init, pos_des, i)
  /\ angle_des' = from_pos_to_angle(pos_des_local', L)
  /\ solver_calls' = solver_calls + 1
  /\ solver_pos' = pos_des_local'
  /\ out' = Append(out, Row(angle_des', pos_des_local', RowNote(i), i + 1))
  /\ i' = i + 1
  /\ UNCHANGED <<pc, pos_init, pos_des, L, feasibility, angle_init>>

LoopExit ==
  /\ pc = "loop"
  /\ ~(i < N)
  /\ pc' = "done"
  /\ UNCHANGED <<pos_init, pos_des, L, feasibility, angle_init, angle_des, i,
                 pos_des_local, out, solver_calls, solver_pos>>

Next ==
  \/ assign_pos_init
  \/ assign_pos_des
  \/ assign_link_length
  \/ CheckOutOfRange
  \/ CheckPathInfeasible
  \/ CheckSingularPath
  \/ CheckPass
  \/ ConvertInit
  \/ ConvertDes
  \/ PrintFormat
  \/ PrintInitial
  \/ LoopStep
  \/ LoopExit

Spec == Init /\ [][Next]_vars

\* ------------------------------------------------------------------------
\* from_pos_to_angle as a function of its arguments
\* ------------------------------------------------------------------------
SolverStep == N \div 5
SolverPositions ==
  {p \in [x : (-MaxCoord * N)..(MaxCoord * N), y : (-MaxCoord * N)..(MaxCoord * N)] :
      p.x % SolverStep = 0 /\ p.y % SolverStep = 0}

SolverInit ==
  /\ pc = "solver_call"
  /\ L \in [x : Links, y : Links]
  /\ pos_des_local \in SolverPositions
  /\ angle_des = NoAngles
  /\ pos_init = Zero
  /\ pos_des = Zero
  /\ feasibility = FALSE
  /\ angle_init = NoAngles
  /\ i = 0
  /\ out = <<>>
  /\ solver_calls = 0
  /\ solver_pos = Zero

SolverCall ==
  /\ pc = "solver_call"
  /\ angle_des' = from_pos_to_angle(pos_des_local, L)
  /\ solver_calls' = solver_calls + 1
  /\ solver_pos' = pos_des_local
  /\ pc' = "solver_return"
  /\ UNCHANGED <<pos_init, pos_des, L, feasibility, angle_init, i,
                 pos_des_local, out>>

SolverNext == SolverCall

SolverSpec == SolverInit /\ [][SolverNext]_vars

\* ------------------------------------------------------------------------
\* Vocabulary of the properties
\* ------------------------------------------------------------------------
Rows == SelectSeq(out, LAMBDA e : Kind(e) = "row")
Errors == SelectSeq(out, LAMBDA e : Kind(e) = "error")
Emitted(msg) == \E k \in 1..Len(out) : Kind(out[k]) = "error" /\ Text(out[k]) = msg
Checked == pc \notin {"assign_pos_init", "assign_pos_des", "assign_link_length",
                      "check", "solver_call", "solver_return"}

\* squared norm of a position
Norm2(p) == p.x * p.x + p.y * p.y

\* p (whole units) is outside the annulus |L1 - L2| <= norm(p) <= L1 + L2
Outside(p, l) ==
  \/ l.x + l.y < 0
  \/ Norm2(p) > (l.x + l.y) * (l.x + l.y)
  \/ Norm2(p) < (l.x - l.y) * (l.x - l.y)

\* p (units of 1/N) is in the annulus
Reachable(p, l) ==
  /\ l.x + l.y >= 0
  /\ Norm2(p) <= N * N * (l.x + l.y) * (l.x + l.y)
  /\ Norm2(p) >= N * N * (l.x - l.y) * (l.x - l.y)


\* the chord from p0 to p1 (whole units) has a point nearer to the origin
\* than |L1 - L2|
ChordEntersInnerDisk(p0, p1, l) ==
  LET dx == p1.x - p0.x
      dy == p1.y - p0.y
      n == dx * dx + dy * dy
      m == -(p0.x * dx + p0.y * dy)
      cross == p0.x * p1.y - p0.y * p1.x
      r2 == (l.x - l.y) * (l.x - l.y)
  IN  IF n = 0 \/ m <= 0 THEN Norm2(p0) < r2
      ELSE IF m >= n THEN Norm2(p1) < r2
      ELSE cross * cross < r2 * n

\* the chord from p0 to p1 contains the origin
ChordContainsOrigin(p0, p1) ==
  /\ p0.x * p1.y - p0.y * p1.x = 0
  /\ p0.x * p1.x + p0.y * p1.y <= 0

Origin(p) == p.x = 0 /\ p.y = 0

\* ------------------------------------------------------------------------
\* C1  The check prints the out-of-range message exactly when start or goal
\*     has norm above L1 + L2 or below |L1 - L2|, and then prints neither of
\*     the other two messages.
\* ------------------------------------------------------------------------
C1_OutOfRangeIff ==
  Checked =>
    /\ Emitted(MsgOutOfRange) <=> (Outside(pos_init, L) \/ Outside(pos_des, L))
    /\ (Outside(pos_init, L) \/ Outside(pos_des, L))
         => ~Emitted(MsgPathInfeasible) /\ ~Emitted(MsgSingularPath)

\* only the goal is out of range, and the line through start and goal
\* passes through the origin
C1_Witness ==
  /\ pc = "exited"
  /\ Emitted(MsgOutOfRange)
  /\ ~Outside(pos_init, L)
  /\ Outside(pos_des, L)
  /\ pos_init # pos_des
  /\ pos_init.x * pos_des.y - pos_init.y * pos_des.x = 0

\* ------------------------------------------------------------------------
\* C2  A failed check ends the run: one error message, the last thing
\*     printed; the solver is never called and no header or row is printed.
\*     Every solver call and every row follows a check that passed.
\* ------------------------------------------------------------------------
C2_ErrorsAreTerminal ==
  /\ (Checked /\ is_given_inputs_feasible(pos_init, pos_des, L) # "true")
       => pc = "exited"
  /\ pc = "exited" => Len(Errors) = 1
  /\ Len(Errors) > 0 =>
       /\ pc = "exited"
       /\ Len(Errors) = 1
       /\ Kind(out[Len(out)]) = "error"
       /\ solver_calls = 0
       /\ \A k \in 1..Len(out) : Kind(out[k]) \in {"prompt", "error"}
  /\ (solver_calls > 0 \/ \E k \in 1..Len(out) : Kind(out[k]) \in {"header", "rule", "row"})
       => feasibility /\ Len(Errors) = 0
            /\ is_given_inputs_feasible(pos_init, pos_des, L) = "true"

C2_Witness ==
  /\ pc = "exited"
  /\ Emitted(MsgPathInfeasible)
  /\ solver_calls = 0

\* ------------------------------------------------------------------------
\* C3  With both endpoints in the annulus, the path message is printed
\*     exactly when the chord has a point nearer to the origin than
\*     |L1 - L2|.
\* ------------------------------------------------------------------------
C3_PathInfeasibleIffChord ==
  (Checked /\ ~Outside(pos_init, L) /\ ~Outside(pos_des, L)) =>
    (Emitted(MsgPathInfeasible) <=> ChordEntersInnerDisk(pos_init, pos_des, L))

\* ------------------------------------------------------------------------
\* C4  With equal (positive) links, a chord that contains the origin is
\*     rejected with the singular-path message, and after a passed check
\*     the solver is never called on the origin and no row reports it.
\* ------------------------------------------------------------------------
C4_SingularPointExcluded ==
  /\ (Checked /\ L.x = L.y /\ L.x > 0
        /\ ~Outside(pos_init, L) /\ ~Outside(pos_des, L)
        /\ ChordContainsOrigin(pos_init, pos_des))
       => Emitted(MsgSingularPath)
  /\ (feasibility /\ L.x = L.y /\ L.x > 0) =>
       /\ solver_calls > 0 => ~Origin(solver_pos)
       /\ LET rows == Rows
          IN  \A k \in 1..Len(rows) : ~Origin(RowPos(rows[k]))

\* ------------------------------------------------------------------------
\* C5  A run whose check passes prints N + 1 rows in waypoint order; the
\*     first carries the start and " (initial)", the last " (final)", the
\*     rows in between nothing; then the run is over.
\* ------------------------------------------------------------------------
C5_RowSequence ==
  LET rows == Rows
  IN  /\ Len(rows) <= N + 1
      /\ \A k \in 1..Len(rows) :
           /\ RowIdx(rows[k]) = k - 1
           /\ Text(rows[k]) = (IF k = 1 THEN " (initial)"
                              ELSE IF k = N + 1 THEN " (final)" ELSE "")
      /\ Len(rows) >= 1 => RowPos(rows[1]) = Fine(pos_init)
      /\ pc = "loop" => Len(rows) = i + 1
      /\ pc = "done" => Len(rows) = N + 1 /\ out[Len(out)] = rows[N + 1]
      /\ feasibility =>
           /\ pc \in {"convert_init", "convert_des", "print_format",
                      "print_initial", "loop", "done"}
           /\ i \in 0..N
      /\ pc = "done" => ~ENABLED Next

C5_Witness ==
  /\ pc = "done"
  /\ Len(Rows) = N + 1
  /\ Text(Rows[N + 1]) = " (final)"
  /\ pos_init # pos_des

\* ------------------------------------------------------------------------
\* C6  Whenever the solver is called, L1 > 0 and L2 > 0.
\* ------------------------------------------------------------------------
C6_LinksPositiveAtSolver ==
  solver_calls > 0 => L.x > 0 /\ L.y > 0

Towards(a, b, goal) ==
  /\ goal >= a => (a <= b /\ b <= goal)
  /\ goal <= a => (a >= b /\ b >= goal)

FkX(a, l) == l.x * Cos(a.x.v) + l.y * Cos(a.x.v + a.y.v)
FkY(a, l) == l.x * Sin(a.x.v) + l.y * Sin(a.x.v + a.y.v)

====
